---- MODULE Spec2Model ----
(***************************************************************************)
(* Hull-fouling simulation engine (engine/Simulation.ts, fuel-cost         *)
(* variant, and the earlier variant without cost), the vessel catalog      *)
(* (engine/VesselTypes.ts), the App component's animation loop and         *)
(* handlers, and the speed slider of the Controls component.               *)
(*                                                                         *)
(* Numbers are exact fixed-point integers.  Units:                         *)
(*   deltaSeconds        multiples of DayUnit real seconds                 *)
(*   simDays, day        multiples of DayUnit simulated days               *)
(*   simSpeed            plain multiplier                                  *)
(*   speedKnots, referenceSpeed   half-knots          (27 = 13.5 kn)       *)
(*   baseFuelConsumption tenths of a tonne per day    (350 = 35 t/day)     *)
(*   foulingRate         tenths of a micron per day   (11 = 1.1 um/day)    *)
(*   roughness           quarter-microns              (400 = 100 um)       *)
(*   baseRoughness       microns, as in the catalog                        *)
(*   coatingHealth       percent                                           *)
(*   dragPenalty, fuelPenalty     percent, 0.5 * dAHR^0.67 rounded up      *)
(*   cleanFuelTonnes, dailyFuelTonnes   thousandths of a tonne per day     *)
(*   emissions*          thousandths of a tonne of CO2                     *)
(*   fuelCost*           dollars                                           *)
(* With these units every sum and product of tick is exact; the only       *)
(* rounded operations are the two calls of Math.pow.                       *)
(***************************************************************************)
EXTENDS Integers, Sequences, FiniteSets, TLC

\* ---------------------------------------------------------------- bounds
\* ticks performed since construction
MaxTicks == 2
\* |day| never exceeds MaxDay time units (MaxDay * DayUnit simulated days)
MaxDay == 4

\* ------------------------------------------------------------- fixed point
\* one time unit = 1000 s of wall clock = 1000 simulated days at simSpeed 1
DayUnit == 1000
\* roughness is stored in 1/RoughScale microns
RoughScale == 4

\* ------------------------------------------------------------ VesselTypes
VESSEL_TYPES ==
  << [id |-> "yacht", referenceSpeed |-> 20, baseFuelConsumption |-> 5,
      hullLength |-> 20, baseRoughness |-> 75, foulingRate |-> 4],
     [id |-> "coastal_freighter", referenceSpeed |-> 22, baseFuelConsumption |-> 150,
      hullLength |-> 100, baseRoughness |-> 100, foulingRate |-> 8],
     [id |-> "handysize_bulker", referenceSpeed |-> 26, baseFuelConsumption |-> 250,
      hullLength |-> 180, baseRoughness |-> 100, foulingRate |-> 10],
     [id |-> "panamax_bulker", referenceSpeed |-> 27, baseFuelConsumption |-> 350,
      hullLength |-> 225, baseRoughness |-> 100, foulingRate |-> 11],
     [id |-> "capesize_bulker", referenceSpeed |-> 29, baseFuelConsumption |-> 550,
      hullLength |-> 300, baseRoughness |-> 120, foulingRate |-> 12],
     [id |-> "feeder_container", referenceSpeed |-> 36, baseFuelConsumption |-> 400,
      hullLength |-> 160, baseRoughness |-> 100, foulingRate |-> 13],
     [id |-> "post_panamax_container", referenceSpeed |-> 44, baseFuelConsumption |-> 1500,
      hullLength |-> 370, baseRoughness |-> 120, foulingRate |-> 15],
     [id |-> "suezmax_tanker", referenceSpeed |-> 28, baseFuelConsumption |-> 600,
      hullLength |-> 275, baseRoughness |-> 120, foulingRate |-> 12],
     [id |-> "vlcc", referenceSpeed |-> 30, baseFuelConsumption |-> 1000,
      hullLength |-> 330, baseRoughness |-> 125, foulingRate |-> 13] >>

\* Array.prototype.find: the first element satisfying the predicate, as a
\* set of at most one element; the empty set is JavaScript's undefined.
Find(id) ==
  LET hits == {i \in 1..Len(VESSEL_TYPES) : VESSEL_TYPES[i].id = id}
  IN  IF hits = {} THEN {}
      ELSE {VESSEL_TYPES[CHOOSE i \in hits : \A j \in hits : i <= j]}

DEFAULT_VESSEL == CHOOSE v \in Find("panamax_bulker") : TRUE

\* ------------------------------------------------------------- Simulation
\* tonnes of CO2 per tonne of fuel, in thousandths
CO2_FACTOR == 3114
DEFAULT_FUEL_PRICE == 500
SPEED_EXPONENT == 3

\* PowTable[p+1] = floor(RoughScale * (2p)^(1/0.67)): the largest stored
\* roughness excess at which 0.5 * dAHR^0.67 is still at most p percent.
PowTable ==
  <<
     0, 11, 31, 58, 89, 124, 163, 205, 250, 298,
     349, 403, 459, 517, 578, 640, 705, 772, 841, 911,
     984, 1058, 1134, 1212, 1292, 1373, 1456, 1540, 1626, 1714,
     1803, 1893, 1985, 2078, 2173, 2269, 2366, 2465, 2565, 2667,
     2770, 2874, 2979, 3085, 3193, 3302, 3412, 3523, 3636, 3750,
     3864, 3980, 4097, 4216, 4335, 4455, 4577, 4699, 4823, 4947,
     5073, 5200, 5328, 5456, 5586, 5717, 5849, 5981, 6115, 6250,
     6386, 6522, 6660, 6798, 6938, 7078, 7220, 7362, 7505, 7649,
     7794, 7940, 8087, 8234, 8383, 8532, 8682, 8834, 8986, 9138,
     9292, 9447, 9602, 9758, 9915, 10073, 10232, 10391, 10552, 10713,
     10875, 11037, 11201, 11365, 11530, 11696, 11863, 12030, 12198, 12367,
     12537, 12708, 12879, 13051, 13224, 13397, 13571, 13746, 13922, 14099,
     14276, 14454, 14632, 14812, 14992, 15173, 15354, 15536, 15719, 15903,
     16087, 16272, 16458, 16645, 16832, 17020, 17208, 17397, 17587, 17778,
     17969, 18161, 18353, 18547, 18741, 18935, 19130, 19326, 19523, 19720,
     19918, 20116, 20316, 20515, 20716, 20917, 21119, 21321, 21524, 21728,
     21932, 22137, 22343, 22549, 22755, 22963, 23171, 23380, 23589, 23799,
     24009, 24220, 24432, 24644, 24857, 25071, 25285, 25500, 25715, 25931,
     26147, 26365, 26582, 26801, 27019, 27239, 27459, 27680, 27901, 28123,
     28345, 28568, 28791, 29016, 29240, 29465, 29691, 29918, 30145, 30372,
     30600, 30829, 31058, 31288, 31518, 31749, 31980, 32212, 32445, 32678,
     32912, 33146, 33381, 33616, 33852, 34088, 34325, 34563, 34801, 35039,
     35278, 35518, 35758, 35999, 36240, 36482, 36724, 36967, 37210, 37454,
     37698, 37943, 38188, 38434, 38681, 38928, 39175, 39423, 39672, 39921,
     40170, 40421, 40671, 40922, 41174, 41426, 41679, 41932, 42185, 42440,
     42694, 42949, 43205, 43461, 43718, 43975, 44233, 44491, 44749, 45008
  >>

\* the number of entries of PowTable below deltaAHR (the table is increasing)
RECURSIVE PowSearch(_, _, _)
PowSearch(deltaAHR, lo, hi) ==
  IF lo = hi THEN lo
  ELSE LET mid == (lo + hi + 1) \div 2
       IN  IF PowTable[mid] < deltaAHR
             THEN PowSearch(deltaAHR, mid, hi)
             ELSE PowSearch(deltaAHR, lo, mid - 1)

\* 0.5 * Math.pow(deltaAHR, 0.67), rounded up to a whole percent
HalfPow067(deltaAHR) == PowSearch(deltaAHR, 0, Len(PowTable))

Max(a, b) == IF a >= b THEN a ELSE b
Min(a, b) == IF a <= b THEN a ELSE b

RECURSIVE GCD(_, _)
GCD(a, b) == IF b = 0 THEN a ELSE GCD(b, a % b)

RECURSIVE IntPow(_, _)
IntPow(x, n) == IF n = 0 THEN 1 ELSE x * IntPow(x, n - 1)

\* the whole part of a * b / c for a, b >= 0 and c > 0, formed from quotients
\* and remainders by c so that no intermediate product leaves 32 bits
MulDiv(a, b, c) ==
  (a \div c) * b + (a % c) * (b \div c) + ((a % c) * (b % c)) \div c

\* Math.abs
Abs(x) == IF x >= 0 THEN x ELSE -x

CleanFuelTonnesSquareLaw(vessel, speedKnots) ==
  LET g   == Max(1, GCD(speedKnots, vessel.referenceSpeed))
      num == IntPow(speedKnots \div g, 2)
      den == IntPow(vessel.referenceSpeed \div g, 2)
  IN  (vessel.baseFuelConsumption * 100 * num) \div den

\* baseFuelConsumption * Math.pow(speedKnots / referenceSpeed, SPEED_EXPONENT)
\* in thousandths of a tonne; the ratio is reduced first and the quotient is
\* rounded towards minus infinity when it is not exact.
CleanFuelTonnes(vessel, speedKnots) ==
  LET g   == Max(1, GCD(speedKnots, vessel.referenceSpeed))
      num == IntPow(speedKnots \div g, SPEED_EXPONENT)
      den == IntPow(vessel.referenceSpeed \div g, SPEED_EXPONENT)
  IN  MulDiv(vessel.baseFuelConsumption * 100, num, den)

\* the rates of tick over one time unit: CO2_FACTOR thousandths of a tonne
\* of CO2 per thousandth of a tonne of daily fuel, and 0.05 percent of
\* coating per day
Co2PerUnit == (CO2_FACTOR * DayUnit) \div 1000
DecayPerUnit == (5 * DayUnit) \div 100
\* dollars per (thousandth of a tonne per day * dollar per tonne * time unit)
CostPerUnit == DayUnit \div 1000

computePenaltiesDefaultBaseline(roughness, vessel, speedKnots) ==
  LET ahr0                == DEFAULT_VESSEL.baseRoughness * RoughScale
      deltaAHR            == Max(0, roughness - ahr0)
      roughnessPenaltyPct == IF deltaAHR > 0 THEN HalfPow067(deltaAHR) ELSE 0
  IN  [dragPenalty     |-> Max(0, roughnessPenaltyPct),
       fuelPenalty     |-> Max(0, roughnessPenaltyPct),
       cleanFuelTonnes |-> CleanFuelTonnes(vessel, speedKnots)]

computePenalties(roughness, vessel, speedKnots) ==
  LET ahr0                == vessel.baseRoughness * RoughScale
      deltaAHR            == Max(0, roughness - ahr0)
      roughnessPenaltyPct == IF deltaAHR > 0 THEN HalfPow067(deltaAHR) ELSE 0
  IN  [dragPenalty     |-> Max(0, roughnessPenaltyPct),
       fuelPenalty     |-> Max(0, roughnessPenaltyPct),
       cleanFuelTonnes |-> CleanFuelTonnes(vessel, speedKnots)]

DailyFuelSubtracted(cleanFuelTonnes, fuelPenalty) ==
  (cleanFuelTonnes * (100 - fuelPenalty)) \div 100

\* cleanFuelTonnes * (1 + fuelPenalty / 100)
DailyFuel(cleanFuelTonnes, fuelPenalty) ==
  (cleanFuelTonnes * (100 + fuelPenalty)) \div 100

ConfigFields == {"vessel", "speedKnots", "simSpeed", "fuelPricePerTonne"}

\* A Partial<SimulationConfig>: each field is {} (not supplied) or {value}.
\* { ...base, ...partial }
Merge(base, partial) ==
  [f \in ConfigFields |->
     IF partial[f] = {} THEN base[f] ELSE CHOOSE x \in partial[f] : TRUE]

defaultConfig ==
  [vessel            |-> DEFAULT_VESSEL,
   speedKnots        |-> DEFAULT_VESSEL.referenceSpeed,
   simSpeed          |-> 1,
   fuelPricePerTonne |-> DEFAULT_FUEL_PRICE]

InitialState(config, roughness) ==
  LET p == computePenalties(roughness, config.vessel, config.speedKnots)
  IN  [day              |-> 0,
       roughness        |-> roughness,
       dragPenalty      |-> p.dragPenalty,
       fuelPenalty      |-> p.fuelPenalty,
       dailyFuelTonnes  |-> DailyFuel(p.cleanFuelTonnes, p.fuelPenalty),
       emissions        |-> 0,
       emissionsClean   |-> 0,
       emissionsPenalty |-> 0,
       coatingHealth    |-> 100,
       config           |-> config,
       fuelCostClean    |-> 0,
       fuelCostPenalty  |-> 0,
       fuelCostTotal    |-> 0]

buildInitialStateDefaultRoughness(config) ==
  InitialState(config, DEFAULT_VESSEL.baseRoughness * RoughScale)

buildInitialState(config) ==
  InitialState(config, config.vessel.baseRoughness * RoughScale)

constructSpeedOfSuppliedVessel(overrides) ==
  LET merged == Merge(defaultConfig, overrides)
  IN  buildInitialState(
        IF overrides.speedKnots = {}
          THEN [merged EXCEPT !.speedKnots = merged.vessel.referenceSpeed]
          ELSE merged)

\* new Simulation(config)
construct(overrides) == buildInitialState(Merge(defaultConfig, overrides))

updateConfigStoreOnly(s, newConfig) ==
  [s EXCEPT !.config = Merge(s.config, newConfig)]

updateConfigRebuilding(s, newConfig) ==
  buildInitialState(Merge(s.config, newConfig))

updateConfig(s, newConfig) ==
  LET config == Merge(s.config, newConfig)
      p      == computePenalties(s.roughness, config.vessel, config.speedKnots)
  IN  [s EXCEPT !.config          = config,
                !.dragPenalty     = p.dragPenalty,
                !.fuelPenalty     = p.fuelPenalty,
                !.dailyFuelTonnes = DailyFuel(p.cleanFuelTonnes, p.fuelPenalty)]

resetToDefaults(s) == buildInitialState(defaultConfig)

reset(s) == buildInitialState(s.config)

SimDaysUnscaled(s, deltaSeconds) == deltaSeconds

\* (deltaSeconds / 86400) * simSpeed * 86400
SimDays(s, deltaSeconds) == deltaSeconds * s.config.simSpeed

CoatingFactorFullHealth(coatingHealth) == 200

\* 1 + (1 - coatingHealth / 100) * 0.5, in two-hundredths
CoatingFactor(coatingHealth) == 200 + (100 - coatingHealth)

GrowthPerFrame(vessel, simDays, coatingHealth) ==
  (vessel.foulingRate * DayUnit * RoughScale
     * CoatingFactor(coatingHealth)) \div 2000

\* foulingRate * simDays * coatingFactor, in stored roughness units
Growth(vessel, simDays, coatingHealth) ==
  (vessel.foulingRate * simDays * DayUnit * RoughScale
     * CoatingFactor(coatingHealth)) \div 2000

\* Math.max(0, coatingHealth - 0.05 * simDays)
Decay(coatingHealth, simDays) == Max(0, coatingHealth - DecayPerUnit * simDays)

AccumulateCleanOnly(total, stepClean, stepPenalty) == total + stepClean

\* total + stepClean + stepPenalty
Accumulate(total, stepClean, stepPenalty) == total + stepClean + stepPenalty

tickPreUpdateRates(s, deltaSeconds) ==
  LET vessel               == s.config.vessel
      speedKnots           == s.config.speedKnots
      fuelPricePerTonne    == s.config.fuelPricePerTonne
      simDays              == SimDays(s, deltaSeconds)
      newRoughness         == s.roughness + Growth(vessel, simDays, s.coatingHealth)
      newCoatingHealth     == Decay(s.coatingHealth, simDays)
      p                    == computePenalties(s.roughness, vessel, speedKnots)
      cleanFuelTonnes      == p.cleanFuelTonnes
      dailyFuelTonnes      == DailyFuel(cleanFuelTonnes, p.fuelPenalty)
      penaltyFuelTonnes    == dailyFuelTonnes - cleanFuelTonnes
      stepCleanEmissions   == cleanFuelTonnes * Co2PerUnit * simDays
      stepPenaltyEmissions == penaltyFuelTonnes * Co2PerUnit * simDays
      stepCleanCost        == cleanFuelTonnes * fuelPricePerTonne * CostPerUnit * simDays
      stepPenaltyCost      == penaltyFuelTonnes * fuelPricePerTonne * CostPerUnit * simDays
  IN  [s EXCEPT !.day              = s.day + simDays,
                !.roughness        = newRoughness,
                !.coatingHealth    = newCoatingHealth,
                !.dragPenalty      = p.dragPenalty,
                !.fuelPenalty      = p.fuelPenalty,
                !.dailyFuelTonnes  = dailyFuelTonnes,
                !.emissions        = Accumulate(s.emissions, stepCleanEmissions,
                                                stepPenaltyEmissions),
                !.emissionsClean   = s.emissionsClean + stepCleanEmissions,
                !.emissionsPenalty = s.emissionsPenalty + stepPenaltyEmissions,
                !.fuelCostClean    = s.fuelCostClean + stepCleanCost,
                !.fuelCostPenalty  = s.fuelCostPenalty + stepPenaltyCost,
                !.fuelCostTotal    = Accumulate(s.fuelCostTotal, stepCleanCost,
                                                stepPenaltyCost)]

tickDefaultPrice(s, deltaSeconds) ==
  LET vessel               == s.config.vessel
      speedKnots           == s.config.speedKnots
      fuelPricePerTonne    == DEFAULT_FUEL_PRICE
      simDays              == SimDays(s, deltaSeconds)
      newRoughness         == s.roughness + Growth(vessel, simDays, s.coatingHealth)
      newCoatingHealth     == Decay(s.coatingHealth, simDays)
      p                    == computePenalties(newRoughness, vessel, speedKnots)
      cleanFuelTonnes      == p.cleanFuelTonnes
      dailyFuelTonnes      == DailyFuel(cleanFuelTonnes, p.fuelPenalty)
      penaltyFuelTonnes    == dailyFuelTonnes - cleanFuelTonnes
      stepCleanEmissions   == cleanFuelTonnes * Co2PerUnit * simDays
      stepPenaltyEmissions == penaltyFuelTonnes * Co2PerUnit * simDays
      stepCleanCost        == cleanFuelTonnes * fuelPricePerTonne * CostPerUnit * simDays
      stepPenaltyCost      == penaltyFuelTonnes * fuelPricePerTonne * CostPerUnit * simDays
  IN  [s EXCEPT !.day              = s.day + simDays,
                !.roughness        = newRoughness,
                !.coatingHealth    = newCoatingHealth,
                !.dragPenalty      = p.dragPenalty,
                !.fuelPenalty      = p.fuelPenalty,
                !.dailyFuelTonnes  = dailyFuelTonnes,
                !.emissions        = Accumulate(s.emissions, stepCleanEmissions,
                                                stepPenaltyEmissions),
                !.emissionsClean   = s.emissionsClean + stepCleanEmissions,
                !.emissionsPenalty = s.emissionsPenalty + stepPenaltyEmissions,
                !.fuelCostClean    = s.fuelCostClean + stepCleanCost,
                !.fuelCostPenalty  = s.fuelCostPenalty + stepPenaltyCost,
                !.fuelCostTotal    = Accumulate(s.fuelCostTotal, stepCleanCost,
                                                stepPenaltyCost)]

tick(s, deltaSeconds) ==
  LET vessel               == s.config.vessel
      speedKnots           == s.config.speedKnots
      fuelPricePerTonne    == s.config.fuelPricePerTonne
      simDays              == SimDays(s, deltaSeconds)
      newRoughness         == s.roughness + Growth(vessel, simDays, s.coatingHealth)
      newCoatingHealth     == Decay(s.coatingHealth, simDays)
      p                    == computePenalties(newRoughness, vessel, speedKnots)
      cleanFuelTonnes      == p.cleanFuelTonnes
      dailyFuelTonnes      == DailyFuel(cleanFuelTonnes, p.fuelPenalty)
      penaltyFuelTonnes    == dailyFuelTonnes - cleanFuelTonnes
      stepCleanEmissions   == cleanFuelTonnes * Co2PerUnit * simDays
      stepPenaltyEmissions == penaltyFuelTonnes * Co2PerUnit * simDays
      stepCleanCost        == cleanFuelTonnes * fuelPricePerTonne * CostPerUnit * simDays
      stepPenaltyCost      == penaltyFuelTonnes * fuelPricePerTonne * CostPerUnit * simDays
  IN  [s EXCEPT !.day              = s.day + simDays,
                !.roughness        = newRoughness,
                !.coatingHealth    = newCoatingHealth,
                !.dragPenalty      = p.dragPenalty,
                !.fuelPenalty      = p.fuelPenalty,
                !.dailyFuelTonnes  = dailyFuelTonnes,
                !.emissions        = Accumulate(s.emissions, stepCleanEmissions,
                                                stepPenaltyEmissions),
                !.emissionsClean   = s.emissionsClean + stepCleanEmissions,
                !.emissionsPenalty = s.emissionsPenalty + stepPenaltyEmissions,
                !.fuelCostClean    = s.fuelCostClean + stepCleanCost,
                !.fuelCostPenalty  = s.fuelCostPenalty + stepPenaltyCost,
                !.fuelCostTotal    = Accumulate(s.fuelCostTotal, stepCleanCost,
                                                stepPenaltyCost)]

\* ------------------------------------------- the engine without fuel cost
\* src/engine/Simulation.ts, the variant of the engine that has no fuel
\* price and no cost counters; its definitions carry the prefix "earlier".
EarlierConfigFields == {"vessel", "speedKnots", "simSpeed"}

\* the fields of a Partial<SimulationConfig> that the earlier interface has
EarlierPartial(partial) == [f \in EarlierConfigFields |-> partial[f]]

\* { ...base, ...partial }
EarlierMerge(base, partial) ==
  [f \in EarlierConfigFields |->
     IF partial[f] = {} THEN base[f] ELSE CHOOSE x \in partial[f] : TRUE]

earlierComputePenalties(roughness, vessel, speedKnots) ==
  LET ahr0                == vessel.baseRoughness * RoughScale
      deltaAHR            == Max(0, roughness - ahr0)
      roughnessPenaltyPct == IF deltaAHR > 0 THEN HalfPow067(deltaAHR) ELSE 0
      cleanFuelTonnes     == CleanFuelTonnes(vessel, speedKnots)
      dragPenalty         == roughnessPenaltyPct
      fuelPenalty         == roughnessPenaltyPct
  IN  [dragPenalty     |-> Max(0, dragPenalty),
       fuelPenalty     |-> Max(0, fuelPenalty),
       cleanFuelTonnes |-> cleanFuelTonnes]

earlierDefaultConfig ==
  [vessel     |-> DEFAULT_VESSEL,
   speedKnots |-> DEFAULT_VESSEL.referenceSpeed,
   simSpeed   |-> 1]

earlierBuildInitialState(config) ==
  LET p         == earlierComputePenalties(config.vessel.baseRoughness * RoughScale,
                                           config.vessel, config.speedKnots)
      dailyFuel == DailyFuel(p.cleanFuelTonnes, p.fuelPenalty)
  IN  [day              |-> 0,
       roughness        |-> config.vessel.baseRoughness * RoughScale,
       dragPenalty      |-> p.dragPenalty,
       fuelPenalty      |-> p.fuelPenalty,
       dailyFuelTonnes  |-> dailyFuel,
       emissions        |-> 0,
       emissionsClean   |-> 0,
       emissionsPenalty |-> 0,
       coatingHealth    |-> 100,
       config           |-> config]

\* new Simulation(config)
earlierConstruct(overrides) ==
  earlierBuildInitialState(EarlierMerge(earlierDefaultConfig, overrides))

earlierUpdateConfig(s, newConfig) ==
  LET config == EarlierMerge(s.config, newConfig)
      p      == earlierComputePenalties(s.roughness, config.vessel, config.speedKnots)
  IN  [s EXCEPT !.config          = config,
                !.dragPenalty     = p.dragPenalty,
                !.fuelPenalty     = p.fuelPenalty,
                !.dailyFuelTonnes = DailyFuel(p.cleanFuelTonnes, p.fuelPenalty)]

earlierReset(s) == earlierBuildInitialState(s.config)

earlierTickDailyEmissions(s, deltaSeconds) ==
  LET vessel               == s.config.vessel
      speedKnots           == s.config.speedKnots
      simDays              == SimDays(s, deltaSeconds)
      newRoughness         == s.roughness + Growth(vessel, simDays, s.coatingHealth)
      newCoatingHealth     == Decay(s.coatingHealth, simDays)
      p                    == earlierComputePenalties(newRoughness, vessel, speedKnots)
      cleanFuelTonnes      == p.cleanFuelTonnes
      dailyFuelTonnes      == DailyFuel(cleanFuelTonnes, p.fuelPenalty)
      stepCleanEmissions   == dailyFuelTonnes * Co2PerUnit * simDays
      stepPenaltyEmissions == (dailyFuelTonnes - cleanFuelTonnes) * Co2PerUnit * simDays
      newEmissions         == s.emissions + (stepCleanEmissions + stepPenaltyEmissions)
      newEmissionsClean    == s.emissionsClean + stepCleanEmissions
      newEmissionsPenalty  == s.emissionsPenalty + stepPenaltyEmissions
  IN  [s EXCEPT !.day              = s.day + simDays,
                !.roughness        = newRoughness,
                !.coatingHealth    = newCoatingHealth,
                !.dragPenalty      = p.dragPenalty,
                !.fuelPenalty      = p.fuelPenalty,
                !.dailyFuelTonnes  = dailyFuelTonnes,
                !.emissions        = newEmissions,
                !.emissionsClean   = newEmissionsClean,
                !.emissionsPenalty = newEmissionsPenalty]

\* The total is formed as emissions + (stepClean + stepPenalty), the later
\* variant's as (emissions + stepClean) + stepPenalty: the same number in
\* this model's exact arithmetic.
earlierTick(s, deltaSeconds) ==
  LET vessel               == s.config.vessel
      speedKnots           == s.config.speedKnots
      simDays              == SimDays(s, deltaSeconds)
      newRoughness         == s.roughness + Growth(vessel, simDays, s.coatingHealth)
      newCoatingHealth     == Decay(s.coatingHealth, simDays)
      p                    == earlierComputePenalties(newRoughness, vessel, speedKnots)
      cleanFuelTonnes      == p.cleanFuelTonnes
      dailyFuelTonnes      == DailyFuel(cleanFuelTonnes, p.fuelPenalty)
      stepCleanEmissions   == cleanFuelTonnes * Co2PerUnit * simDays
      stepPenaltyEmissions == (dailyFuelTonnes - cleanFuelTonnes) * Co2PerUnit * simDays
      newEmissions         == s.emissions + (stepCleanEmissions + stepPenaltyEmissions)
      newEmissionsClean    == s.emissionsClean + stepCleanEmissions
      newEmissionsPenalty  == s.emissionsPenalty + stepPenaltyEmissions
  IN  [s EXCEPT !.day              = s.day + simDays,
                !.roughness        = newRoughness,
                !.coatingHealth    = newCoatingHealth,
                !.dragPenalty      = p.dragPenalty,
                !.fuelPenalty      = p.fuelPenalty,
                !.dailyFuelTonnes  = dailyFuelTonnes,
                !.emissions        = newEmissions,
                !.emissionsClean   = newEmissionsClean,
                !.emissionsPenalty = newEmissionsPenalty]

\* ---------------------------------------------------------------- Controls
\* components/Dashboard.tsx, the Controls component; knots are whole numbers
\* here and half-knots in the engine.
MIN_SPEED_KNOTS == 4
MAX_SPEED_KNOTS == 30
SPEED_SNAP_POINTS == <<4, 6, 8, 10, 12, 14, 16, 18, 20, 22, 24, 26, 28, 30>>

HalfKnots(knots) == 2 * knots

\* SPEED_SNAP_POINTS.reduce(callback) without an initial value, from the
\* accumulator prev and the i-th element on
RECURSIVE SnapReduce(_, _, _)
SnapReduce(prev, i, raw) ==
  IF i > Len(SPEED_SNAP_POINTS) THEN prev
  ELSE LET curr == SPEED_SNAP_POINTS[i]
       IN  SnapReduce(IF Abs(curr - raw) < Abs(prev - curr) THEN curr ELSE prev,
                      i + 1, raw)

handleSpeedReleaseUnsnapped(raw) == raw

\* the value handleSpeedRelease(raw) passes to onSpeedChange
handleSpeedRelease(raw) == SnapReduce(SPEED_SNAP_POINTS[1], 2, raw)

\* ------------------------------------------------------------------ inputs
\* catalog profiles handed to the engine
Vessels == Find("panamax_bulker") \cup Find("yacht")
\* operating speeds in half-knots
ValidSpeeds == {0, 27}
Speeds == ValidSpeeds
\* members of SIM_SPEEDS, and a negative multiplier
ValidSimSpeeds == {1, 2}
SimSpeeds == ValidSimSpeeds \cup {-1}
ValidPrices == {250, 500}
Prices == ValidPrices
\* elapsed wall-clock time of a tick in time units, and a negative one
ValidElapsed == {0, 1, 2}
Elapsed == ValidElapsed \cup {-1}
\* identifiers chosen in the vessel selector, and one the catalog lacks
CatalogIds == {VESSEL_TYPES[i].id : i \in 1..Len(VESSEL_TYPES)}
SelectIds == {"panamax_bulker", "yacht", "not-a-real-id"}
\* arguments of computePenalties: roughness in quarter-microns, below, at and
\* above the baselines of the profiles; speeds in half-knots up to
\* MAX_SPEED_KNOTS, with their doubles
PureRoughness == {0, 300, 301, 400, 401, 500, 501, 800, 2400, 6000}
PureVessels == Vessels \cup Find("vlcc")
PureSpeeds == {0, 10, 20, 27, 30, 54, 60}
\* The animation frames are timed on the axis of the engine's time units:
\* the loop's comparison, difference and minimum do not depend on the scale,
\* and the cap of 0.1 s on a frame's delta stands at FrameCap time units.
FrameCap == 2
\* timestamps of animation frames, with gaps below, at and above the cap
Timestamps == 0..5
\* positions of the speed slider: min, max and step 1 of the range input
SliderValues == MIN_SPEED_KNOTS..MAX_SPEED_KNOTS

Opt(S) == {{}} \cup {{x} : x \in S}

Supplied(partial) == {f \in ConfigFields : partial[f] # {}}

\* The partial configurations the callers pass: nothing, one field, or
\* vessel together with speedKnots (handleVesselChange).
PartialConfigs(V, S, M, F) ==
  {p \in [vessel : Opt(V), speedKnots : Opt(S), simSpeed : Opt(M),
          fuelPricePerTonne : Opt(F)] :
     \/ Cardinality(Supplied(p)) <= 1
     \/ Supplied(p) = {"vessel", "speedKnots"}}

AllPartials == PartialConfigs(Vessels, Speeds, SimSpeeds, Prices)
ValidPartials == PartialConfigs(Vessels, ValidSpeeds, ValidSimSpeeds, ValidPrices)

\* ------------------------------------------------------------------- state
\* state:  Simulation.state of the module-level engine `sim`
\* nticks: ticks performed since construction
\* last:   the operation performed last and, for tick, its deltaSeconds
\* app:    the App component: the selected vessel ({} is undefined), the
\*         identifier looked up last, the exception thrown by a handler, and
\*         the simSpeed and isRunning hooks, lastTimeRef ({} is null) and
\*         the timestamp of the latest animation frame
\* calc:   the pure function applied last, with its arguments and its result
VARIABLES state, nticks, last, app, calc

vars == <<state, nticks, last, app, calc>>

InitWith(P) ==
  /\ \E overrides \in P : state = construct(overrides)
  /\ nticks = 0
  /\ last = [op |-> "construct", arg |-> 0]
  /\ app = [vessel |-> {DEFAULT_VESSEL}, lookedUp |-> "", thrown |-> "none",
            simSpeed |-> 1, isRunning |-> FALSE,
            lastTimeRef |-> {}, timestamp |-> 0]
  /\ calc = [fn |-> "none"]

Tick(deltaSeconds) ==
  /\ app.thrown = "none"
  /\ nticks < MaxTicks
  /\ state.day + SimDays(state, deltaSeconds) \in -MaxDay..MaxDay
  /\ state' = tick(state, deltaSeconds)
  /\ nticks' = nticks + 1
  /\ last' = [op |-> "tick", arg |-> deltaSeconds]
  /\ UNCHANGED <<app, calc>>

UpdateConfig(newConfig) ==
  /\ state' = updateConfig(state, newConfig)
  /\ last' = [op |-> "updateConfig", arg |-> 0]
  /\ UNCHANGED <<nticks, app, calc>>

Reset ==
  /\ app.thrown = "none"
  /\ state' = reset(state)
  /\ last' = [op |-> "reset", arg |-> 0]
  /\ UNCHANGED <<nticks, app, calc>>

\* The vessel selector's onChange and App.handleVesselChange: the profile
\* found is stored and handed to the engine with its own reference speed.  A
\* profile that is undefined is stored as well, and reading its
\* referenceSpeed then throws before the engine is called.
SelectVessel(id) ==
  LET v == Find(id)
  IN  /\ app.thrown = "none"
      /\ IF v = {}
           THEN /\ app' = [app EXCEPT !.vessel = v, !.lookedUp = id,
                                      !.thrown = "TypeError"]
                /\ UNCHANGED state
           ELSE /\ app' = [app EXCEPT !.vessel = v, !.lookedUp = id]
                /\ state' = updateConfig(state,
                     [vessel            |-> v,
                      speedKnots        |-> {(CHOOSE x \in v : TRUE).referenceSpeed},
                      simSpeed          |-> {},
                      fuelPricePerTonne |-> {}])
      /\ last' = [op |-> "selectVessel", arg |-> 0]
      /\ UNCHANGED <<nticks, calc>>

FrameDeltaUncapped(lastTimeRef, timestamp) ==
  LET current == IF lastTimeRef = {} THEN timestamp
                 ELSE CHOOSE t \in lastTimeRef : TRUE
  IN  timestamp - current

\* The delta a frame measures: lastTimeRef is set to the frame's timestamp
\* when it is null, and the difference is capped.
FrameDelta(lastTimeRef, timestamp) ==
  LET current == IF lastTimeRef = {} THEN timestamp
                 ELSE CHOOSE t \in lastTimeRef : TRUE
  IN  Min(timestamp - current, FrameCap)

\* App.loop: one animation frame, delivered while the loop is scheduled, its
\* timestamp not before that of the frame before.  The engine is called with
\* deltaSeconds * simSpeed of the component's simSpeed hook.
Loop(timestamp) ==
  LET deltaSeconds == FrameDelta(app.lastTimeRef, timestamp)
  IN  /\ app.thrown = "none"
      /\ app.isRunning
      /\ timestamp >= app.timestamp
      /\ nticks < MaxTicks
      /\ state.day + SimDays(state, deltaSeconds * app.simSpeed) \in -MaxDay..MaxDay
      /\ state' = tick(state, deltaSeconds * app.simSpeed)
      /\ app' = [app EXCEPT !.lastTimeRef = {timestamp}, !.timestamp = timestamp]
      /\ nticks' = nticks + 1
      /\ last' = [op |-> "loop", arg |-> deltaSeconds]
      /\ UNCHANGED calc

\* The Start/Pause button, setIsRunning(r => !r), and the effect that follows
\* it: on start lastTimeRef is cleared and a frame requested, on pause the
\* frame requested is cancelled.
ToggleRun ==
  /\ app.thrown = "none"
  /\ app' = [app EXCEPT !.isRunning = ~app.isRunning,
                        !.lastTimeRef = IF app.isRunning THEN @ ELSE {}]
  /\ last' = [op |-> "toggleRun", arg |-> 0]
  /\ UNCHANGED <<state, nticks, calc>>

\* App.handleSimSpeedChange; a new multiplier makes a new loop callback, on
\* which the effect runs again when the simulation is running.
HandleSimSpeedChange(mult) ==
  /\ app.thrown = "none"
  /\ app' = [app EXCEPT !.simSpeed = mult,
                        !.lastTimeRef = IF app.isRunning /\ mult # app.simSpeed
                                          THEN {} ELSE @]
  /\ state' = updateConfig(state,
       [vessel |-> {}, speedKnots |-> {}, simSpeed |-> {mult},
        fuelPricePerTonne |-> {}])
  /\ last' = [op |-> "handleSimSpeedChange", arg |-> mult]
  /\ UNCHANGED <<nticks, calc>>

\* App.handleReset
HandleReset ==
  /\ app.thrown = "none"
  /\ state' = reset(state)
  /\ app' = [app EXCEPT !.isRunning = FALSE]
  /\ last' = [op |-> "handleReset", arg |-> 0]
  /\ UNCHANGED <<nticks, calc>>

\* The speed slider released at raw (onMouseUp, onTouchEnd):
\* handleSpeedRelease calls onSpeedChange, which is App.handleSpeedChange,
\* with the snapped value.
HandleSpeedRelease(raw) ==
  /\ app.thrown = "none"
  /\ state' = updateConfig(state,
       [vessel |-> {}, speedKnots |-> {HalfKnots(handleSpeedRelease(raw))},
        simSpeed |-> {}, fuelPricePerTonne |-> {}])
  /\ last' = [op |-> "handleSpeedRelease", arg |-> raw]
  /\ UNCHANGED <<nticks, app, calc>>

\* computePenalties applied to its three arguments
ComputePenalties(roughness, vessel, speedKnots) ==
  /\ calc' = [fn         |-> "computePenalties",
              roughness  |-> roughness,
              vessel     |-> vessel,
              speedKnots |-> speedKnots,
              out        |-> computePenalties(roughness, vessel, speedKnots)]
  /\ UNCHANGED <<state, nticks, last, app>>

\* new Simulation(overrides), the engine it yields kept as a value
Construct(overrides) ==
  /\ calc' = [fn        |-> "construct",
              overrides |-> overrides,
              out       |-> construct(overrides)]
  /\ UNCHANGED <<state, nticks, last, app>>

\* tick(a + b) and tick(a) followed by tick(b), both applied to the current
\* state of the engine, which is left as it is
SplitTick(a, b) ==
  /\ calc.fn = "none"
  /\ nticks < MaxTicks
  /\ state.day + SimDays(state, a + b) \in -MaxDay..MaxDay
  /\ calc' = [fn    |-> "splitTick",
              a     |-> a,
              b     |-> b,
              from  |-> state,
              first |-> tick(state, a),
              split |-> tick(tick(state, a), b),
              whole |-> tick(state, a + b)]
  /\ UNCHANGED <<state, nticks, last, app>>

\* Both variants of the engine constructed from the same overrides, the
\* later one with any fuel price besides; calc holds the earlier engine.
InitBoth ==
  /\ \E overrides \in ValidPartials :
       /\ state = construct(overrides)
       /\ calc = [fn    |-> "earlier",
                  state |-> earlierConstruct(EarlierPartial(overrides))]
  /\ nticks = 0
  /\ last = [op |-> "construct", arg |-> 0]
  /\ app = [vessel |-> {DEFAULT_VESSEL}, lookedUp |-> "", thrown |-> "none",
            simSpeed |-> 1, isRunning |-> FALSE,
            lastTimeRef |-> {}, timestamp |-> 0]

\* tick(deltaSeconds) on both engines
BothTick(deltaSeconds) ==
  /\ nticks < MaxTicks
  /\ state.day + SimDays(state, deltaSeconds) \in -MaxDay..MaxDay
  /\ state' = tick(state, deltaSeconds)
  /\ calc' = [calc EXCEPT !.state = earlierTick(calc.state, deltaSeconds)]
  /\ nticks' = nticks + 1
  /\ last' = [op |-> "tick", arg |-> deltaSeconds]
  /\ UNCHANGED app

\* updateConfig on both engines, the earlier one with the fields it has
BothUpdateConfig(newConfig) ==
  /\ state' = updateConfig(state, newConfig)
  /\ calc' = [calc EXCEPT
                !.state = earlierUpdateConfig(calc.state, EarlierPartial(newConfig))]
  /\ last' = [op |-> "updateConfig", arg |-> 0]
  /\ UNCHANGED <<nticks, app>>

\* reset() on both engines
BothReset ==
  /\ state' = reset(state)
  /\ calc' = [calc EXCEPT !.state = earlierReset(calc.state)]
  /\ last' = [op |-> "reset", arg |-> 0]
  /\ UNCHANGED <<nticks, app>>

\* The engine constructed and driven with the prices of the ticks since the
\* last reset (or construction) kept in calc.
InitPrice ==
  /\ \E overrides \in ValidPartials : state = construct(overrides)
  /\ nticks = 0
  /\ last = [op |-> "construct", arg |-> 0]
  /\ app = [vessel |-> {DEFAULT_VESSEL}, lookedUp |-> "", thrown |-> "none",
            simSpeed |-> 1, isRunning |-> FALSE,
            lastTimeRef |-> {}, timestamp |-> 0]
  /\ calc = [fn |-> "tickPrices", prices |-> {}]

\* tick(deltaSeconds), its price noted
TickAtPrice(deltaSeconds) ==
  /\ nticks < MaxTicks
  /\ state.day + SimDays(state, deltaSeconds) \in -MaxDay..MaxDay
  /\ state' = tick(state, deltaSeconds)
  /\ calc' = [calc EXCEPT !.prices = @ \cup {state.config.fuelPricePerTonne}]
  /\ nticks' = nticks + 1
  /\ last' = [op |-> "tick", arg |-> deltaSeconds]
  /\ UNCHANGED app

\* reset(), after which no tick has been priced
ResetPrices ==
  /\ state' = reset(state)
  /\ calc' = [calc EXCEPT !.prices = {}]
  /\ last' = [op |-> "reset", arg |-> 0]
  /\ UNCHANGED <<nticks, app>>

\* The engine driven through its interface with any of the inputs above.
Init == InitWith(AllPartials)

Next ==
  \/ \E d \in Elapsed : Tick(d)
  \/ \E c \in AllPartials : UpdateConfig(c)
  \/ Reset

Spec == Init /\ [][Next]_vars

\* The engine driven with the inputs its interface documents: non-negative
\* elapsed time, speed, multiplier and price.
InitValid == InitWith(ValidPartials)

NextValid ==
  \/ \E d \in ValidElapsed : Tick(d)
  \/ \E c \in ValidPartials : UpdateConfig(c)
  \/ Reset

SpecValid == InitValid /\ [][NextValid]_vars

\* The engine driven with ticks of non-negative elapsed time and any
\* configuration.
NextElapsedValid ==
  \/ \E d \in ValidElapsed : Tick(d)
  \/ \E c \in AllPartials : UpdateConfig(c)
  \/ Reset

SpecElapsedValid == Init /\ [][NextElapsedValid]_vars

\* The engine driven with valid inputs up to some state, where a step of
\* elapsed time is compared with the same time taken in two steps.
NextSplit ==
  \/ calc.fn = "none" /\ NextValid
  \/ \E a \in ValidElapsed, b \in ValidElapsed : SplitTick(a, b)

SpecSplit == InitValid /\ [][NextSplit]_vars

\* The two variants of the engine driven side by side with any elapsed time
\* and the configurations their interface documents.
NextBoth ==
  \/ \E d \in Elapsed : BothTick(d)
  \/ \E c \in ValidPartials : BothUpdateConfig(c)
  \/ BothReset

SpecBoth == InitBoth /\ [][NextBoth]_vars

\* The engine driven with valid inputs, the prices of its ticks noted.
NextPrice ==
  \/ \E d \in ValidElapsed : TickAtPrice(d)
  \/ \E c \in ValidPartials : UpdateConfig(c)
  \/ ResetPrices

SpecPrice == InitPrice /\ [][NextPrice]_vars

\* The engine constructed without overrides and driven with valid ticks and
\* resets, its vessel chosen through the selector.
InitSelect == InitWith({[vessel |-> {}, speedKnots |-> {}, simSpeed |-> {},
                         fuelPricePerTonne |-> {}]})

NextSelect ==
  \/ \E id \in SelectIds : SelectVessel(id)
  \/ \E d \in ValidElapsed : Tick(d)
  \/ Reset

SpecSelect == InitSelect /\ [][NextSelect]_vars

\* The App component: the engine constructed without overrides and driven
\* by the animation loop and the handlers of the controls.
NextApp ==
  \/ \E t \in Timestamps : Loop(t)
  \/ ToggleRun
  \/ \E mult \in ValidSimSpeeds : HandleSimSpeedChange(mult)
  \/ \E id \in SelectIds : SelectVessel(id)
  \/ HandleReset

SpecApp == InitSelect /\ [][NextApp]_vars

\* The engine constructed without overrides, any vessel of the catalog
\* selected and the speed slider released anywhere.
NextSnap ==
  \/ \E id \in CatalogIds : SelectVessel(id)
  \/ \E raw \in SliderValues : HandleSpeedRelease(raw)

SpecSnap == InitSelect /\ [][NextSnap]_vars

\* The pure functions of the engine applied to arguments drawn from the
\* input sets.
NextPure ==
  \/ \E r \in PureRoughness, v \in PureVessels, k \in PureSpeeds :
       ComputePenalties(r, v, k)
  \/ \E o \in AllPartials : Construct(o)

SpecPure == InitSelect /\ [][NextPure]_vars

\* ------------------------------------------------------------------ claims
\* a step of tick (its deltaSeconds is last'.arg), updateConfig or reset
TickStep == last'.op = "tick"
UpdateConfigStep == last'.op = "updateConfig"
ResetStep == last'.op = "reset"

\* the fields that accumulate over the run
CumulativeFields ==
  {"day", "emissions", "emissionsClean", "emissionsPenalty",
   "fuelCostClean", "fuelCostPenalty", "fuelCostTotal"}

\* C1: in every state reachable by tick, updateConfig and reset, emissions is
\* the sum of emissionsClean and emissionsPenalty, and fuelCostTotal is the
\* sum of fuelCostClean and fuelCostPenalty.
C1_AdditiveTotals ==
  /\ state.emissions = state.emissionsClean + state.emissionsPenalty
  /\ state.fuelCostTotal = state.fuelCostClean + state.fuelCostPenalty

\* two ticks have accrued clean and penalty emissions and cost
C1_Witness ==
  /\ last.op = "tick"
  /\ nticks >= 2
  /\ state.emissionsClean > 0
  /\ state.emissionsPenalty > 0
  /\ state.fuelCostClean > 0
  /\ state.fuelCostPenalty > 0

\* C2: updateConfig with any partial configuration leaves day, roughness,
\* coatingHealth and the cumulative emission and fuel-cost fields as they
\* were; only config, dragPenalty, fuelPenalty and dailyFuelTonnes may change.
C2_UpdateConfigKeepsHistory ==
  [][UpdateConfigStep =>
       \A f \in CumulativeFields \cup {"roughness", "coatingHealth"} :
         state'[f] = state[f]]_vars

\* emissions accrued under way, and the speed was then set to 0
C2_Witness ==
  /\ last.op = "updateConfig"
  /\ state.day > 0
  /\ state.emissionsPenalty > 0
  /\ state.fuelCostTotal > 0
  /\ state.config.speedKnots = 0
  /\ state.dailyFuelTonnes = 0

\* C3: reset yields day 0, the roughness of the current vessel's baseline,
\* coating health 100 and all cumulative fields 0, and keeps the
\* configuration that was in effect before it.
C3_ResetKeepsConfig ==
  [][ResetStep =>
       /\ \A f \in CumulativeFields : state'[f] = 0
       /\ state'.roughness = state.config.vessel.baseRoughness * RoughScale
       /\ state'.coatingHealth = 100
       /\ state'.config = state.config]_vars

\* a reset after ticks, under a configuration that differs from the default
\* one in every field
C3_Witness ==
  /\ last.op = "reset"
  /\ nticks > 0
  /\ state.config.vessel.id = "yacht"
  /\ state.config.speedKnots = 0
  /\ state.config.simSpeed = 2
  /\ state.config.fuelPricePerTonne = 250

\* C4: with non-negative elapsed time and a configuration of non-negative
\* speed, multiplier and price, a tick leaves roughness, day and every
\* cumulative emission and fuel-cost field at least as large as before.
C4_TickMonotone ==
  [][(TickStep /\ last'.arg >= 0) =>
       \A f \in CumulativeFields \cup {"roughness"} : state'[f] >= state[f]]_vars

\* a second tick of positive length with penalty emissions accrued
C4_Witness ==
  /\ last.op = "tick"
  /\ last.arg > 0
  /\ nticks >= 2
  /\ state.day >= 2
  /\ state.emissionsPenalty > 0
  /\ state.fuelCostPenalty > 0

\* C5: coatingHealth stays within [0, 100]; a tick of non-negative elapsed
\* time sets it to max(0, coatingHealth - 0.05 * simDays) and never raises
\* it, updateConfig leaves it alone, and once 0 it stays 0 until a reset.
C5_CoatingHealth ==
  /\ [](state.coatingHealth \in 0..100)
  /\ [][/\ (TickStep /\ last'.arg >= 0) =>
             /\ state'.coatingHealth =
                  Max(0, state.coatingHealth
                           - (5 * DayUnit * SimDays(state, last'.arg)) \div 100)
             /\ state'.coatingHealth <= state.coatingHealth
        /\ UpdateConfigStep => state'.coatingHealth = state.coatingHealth
        /\ (state.coatingHealth = 0 /\ ~ResetStep) => state'.coatingHealth = 0]_vars

\* C6: tick(0) leaves every field of the state as it was, in every state
\* reachable by construct, tick, updateConfig and reset.
C6_ZeroTickIdentity == [][(TickStep /\ last'.arg = 0) => state' = state]_vars

\* a tick(0) on a fouled hull
C6_Witness ==
  /\ last.op = "tick"
  /\ last.arg = 0
  /\ state.day > 0
  /\ state.fuelPenalty > 0
  /\ state.emissionsPenalty > 0

\* C7: right after construction, with or without overrides, and right after
\* reset, roughness is the configured vessel's own baseRoughness, dragPenalty
\* and fuelPenalty are 0 and dailyFuelTonnes is the clean-hull fuel rate.
C7_BaselinePenaltyZero ==
  last.op \in {"construct", "reset"} =>
    /\ state.roughness = state.config.vessel.baseRoughness * RoughScale
    /\ state.dragPenalty = 0
    /\ state.fuelPenalty = 0
    /\ state.dailyFuelTonnes =
         CleanFuelTonnes(state.config.vessel, state.config.speedKnots)

\* a reset after ticks with a vessel other than the default one, under way
C7_Witness ==
  /\ last.op = "reset"
  /\ nticks > 0
  /\ state.config.vessel.id = "yacht"
  /\ state.config.speedKnots = 27

\* C8: a tick with negative elapsed time is a no-op or is rejected: it lowers
\* neither day nor roughness nor any cumulative emission or fuel-cost field.
C8_NegativeTickHarmless ==
  [][(TickStep /\ last'.arg < 0) =>
       \A f \in CumulativeFields \cup {"roughness"} : state'[f] >= state[f]]_vars

\* the merged configurations that construct and updateConfig are to accept
IsValidConfig(config) ==
  /\ config.vessel.referenceSpeed > 0
  /\ config.vessel.hullLength > 0
  /\ config.vessel.baseFuelConsumption > 0
  /\ config.speedKnots >= 0
  /\ config.simSpeed >= 0
  /\ config.fuelPricePerTonne >= 0

\* C9: construct and updateConfig reject a merged configuration with a
\* non-positive reference speed, hull length or base fuel consumption or a
\* negative speed, multiplier or price, and a rejected updateConfig leaves
\* the prior state in effect: no invalid configuration is ever in effect.
C9_InvalidConfigRejected == IsValidConfig(state.config)

\* C10: looking up an identifier the catalog lacks fails with
\* UnknownVesselError instead of yielding an undefined profile, and looking
\* up an identifier of the catalog yields the one profile with that id.
C10_UnknownVesselFails ==
  last.op = "selectVessel" =>
    IF app.lookedUp \in CatalogIds
      THEN /\ app.thrown = "none"
           /\ Cardinality({i \in 1..Len(VESSEL_TYPES) :
                             VESSEL_TYPES[i].id = app.lookedUp}) = 1
           /\ \E v \in app.vessel : v.id = app.lookedUp
      ELSE /\ app.thrown = "UnknownVesselError"
           /\ app.vessel # {}

\* C11: a tick of deltaSeconds adds deltaSeconds * config.simSpeed to day, and
\* the roughness growth, the coating decay and the emission and cost
\* increments of the step are all those of that same number of days.
C11_TickUsesSimDays ==
  [][TickStep =>
       LET simDays == last'.arg * state.config.simSpeed
           vessel  == state.config.vessel
           price   == state.config.fuelPricePerTonne
           clean   == CleanFuelTonnes(vessel, state.config.speedKnots)
           penalty == state'.dailyFuelTonnes - clean
       IN  /\ state'.day = state.day + simDays
           /\ state'.roughness =
                state.roughness + Growth(vessel, simDays, state.coatingHealth)
           /\ state'.coatingHealth = Decay(state.coatingHealth, simDays)
           /\ state'.emissionsClean =
                state.emissionsClean + clean * Co2PerUnit * simDays
           /\ state'.emissionsPenalty =
                state.emissionsPenalty + penalty * Co2PerUnit * simDays
           /\ state'.fuelCostClean =
                state.fuelCostClean + clean * price * CostPerUnit * simDays
           /\ state'.fuelCostPenalty =
                state.fuelCostPenalty + penalty * price * CostPerUnit * simDays]_vars

\* one tick of two time units at multiplier 2 has advanced day by four
C11_Witness ==
  /\ last.op = "tick"
  /\ last.arg = 2
  /\ nticks = 1
  /\ state.config.simSpeed = 2
  /\ state.day = 4
  /\ state.emissionsPenalty > 0
  /\ state.fuelCostPenalty > 0

\* C12: the animation loop hands the engine the frame's capped wall-clock
\* delta, so a frame of delta d under multiplier m advances day by d * m.
C12_FrameAdvancesByMultiplier ==
  [][last'.op = "loop" =>
       state'.day = state.day + last'.arg * app.simSpeed]_vars

\* C13: a tick accrues emissions and cost at the rates that hold after its
\* own growth of roughness: the clean delta is cleanFuelTonnes * factor *
\* simDays and the penalty delta (dailyFuelTonnes - cleanFuelTonnes) * factor
\* * simDays, with dailyFuelTonnes taken from the new roughness, factor being
\* CO2_FACTOR for emissions and fuelPricePerTonne for cost.
C13_PostUpdateRates ==
  [][TickStep =>
       LET simDays     == state'.day - state.day
           vessel      == state.config.vessel
           price       == state.config.fuelPricePerTonne
           clean       == CleanFuelTonnes(vessel, state.config.speedKnots)
           ahrAfter    == Max(0, state'.roughness - vessel.baseRoughness * RoughScale)
           penaltyPct  == IF ahrAfter > 0 THEN HalfPow067(ahrAfter) ELSE 0
           penaltyFuel == (clean * (100 + penaltyPct)) \div 100 - clean
       IN  /\ state'.emissionsClean - state.emissionsClean
                = clean * Co2PerUnit * simDays
           /\ state'.emissionsPenalty - state.emissionsPenalty
                = penaltyFuel * Co2PerUnit * simDays
           /\ state'.fuelCostClean - state.fuelCostClean
                = clean * price * CostPerUnit * simDays
           /\ state'.fuelCostPenalty - state.fuelCostPenalty
                = penaltyFuel * price * CostPerUnit * simDays]_vars

\* the first tick from the clean baseline has accrued penalty emissions and
\* cost: the rate before its growth was zero
C13_Witness ==
  /\ last.op = "tick"
  /\ last.arg > 0
  /\ nticks = 1
  /\ state.config.simSpeed > 0
  /\ state.day > 0
  /\ state.roughness > state.config.vessel.baseRoughness * RoughScale
  /\ state.emissionsPenalty > 0
  /\ state.fuelCostPenalty > 0

\* two successive applications of computePenalties to the same vessel
SameVesselPenalties ==
  /\ calc.fn = "computePenalties"
  /\ calc'.fn = "computePenalties"
  /\ calc'.vessel = calc.vessel

C16_RoughnessAtLeastBaseline ==
  state.roughness >= state.config.vessel.baseRoughness * RoughScale

\* C17: a tick grows roughness by foulingRate * simDays * coatingFactor, with
\* coatingFactor = 1 + (1 - coatingHealth / 100) * 0.5 taken from the coating
\* health before the step's decay, and coatingFactor lies in [1, 1.5] (here
\* 200..300 two-hundredths) in every reachable state.
C17_GrowthByCoatingFactor ==
  /\ [](200 + (100 - state.coatingHealth) \in 200..300)
  /\ [][TickStep =>
          LET simDays       == state'.day - state.day
              coatingFactor == 200 + (100 - state.coatingHealth)
          IN  state'.roughness - state.roughness =
                (state.config.vessel.foulingRate * simDays * DayUnit
                   * RoughScale * coatingFactor) \div 2000]_vars

\* C18: construct takes every field the overrides supply and the default for
\* every other field: the panamax_bulker profile, that profile's reference
\* speed, multiplier 1 and price 500.  An override of the vessel alone keeps
\* the default profile's reference speed.
C18_ConstructMergesDefaults ==
  calc.fn = "construct" =>
    LET o      == calc.overrides
        config == calc.out.config
    IN  /\ IF o.vessel = {}
             THEN config.vessel.id = "panamax_bulker"
             ELSE config.vessel \in o.vessel
        /\ IF o.speedKnots = {}
             THEN \E v \in Find("panamax_bulker") :
                    config.speedKnots = v.referenceSpeed
             ELSE config.speedKnots \in o.speedKnots
        /\ IF o.simSpeed = {}
             THEN config.simSpeed = 1
             ELSE config.simSpeed \in o.simSpeed
        /\ IF o.fuelPricePerTonne = {}
             THEN config.fuelPricePerTonne = 500
             ELSE config.fuelPricePerTonne \in o.fuelPricePerTonne

\* constructed with the yacht as the only override: the speed is the
\* panamax bulker's 13.5 kn, not the yacht's 10 kn
C18_Witness ==
  /\ calc.fn = "construct"
  /\ Supplied(calc.overrides) = {"vessel"}
  /\ calc.out.config.vessel.id = "yacht"
  /\ calc.out.config.speedKnots = 27
  /\ calc.out.config.vessel.referenceSpeed = 20

\* C19: in every reachable state dragPenalty and fuelPenalty are the penalty
\* of the stored roughness for the stored vessel, and dailyFuelTonnes is the
\* clean-hull fuel of the stored vessel and speed times (1 + fuelPenalty /
\* 100): no readout is left over from an earlier vessel, speed or roughness.
C19_ReadoutsConsistent ==
  LET vessel   == state.config.vessel
      deltaAHR == Max(0, state.roughness - vessel.baseRoughness * RoughScale)
      pct      == IF deltaAHR > 0 THEN HalfPow067(deltaAHR) ELSE 0
      clean    == CleanFuelTonnes(vessel, state.config.speedKnots)
  IN  /\ state.dragPenalty = pct
      /\ state.fuelPenalty = pct
      /\ state.dailyFuelTonnes = (clean * (100 + pct)) \div 100

\* a fouled hull whose vessel was changed to the yacht after the last tick
C19_Witness ==
  /\ last.op = "updateConfig"
  /\ nticks > 0
  /\ state.day > 0
  /\ state.config.vessel.id = "yacht"
  /\ state.roughness > 400
  /\ state.fuelPenalty > 0
  /\ state.dailyFuelTonnes > 0

\* C20: in every state reached by construct, ticks of non-negative elapsed
\* time, updateConfig and reset, coatingHealth is max(0, 100 - 0.05 * day),
\* whatever the split into ticks and the configuration changes in between,
\* and it is 0 exactly when day >= 2000.
C20_CoatingHealthOfDay ==
  /\ state.coatingHealth = Max(0, 100 - (5 * DayUnit * state.day) \div 100)
  /\ state.coatingHealth = 0 <=> state.day * DayUnit >= 2000

\* C21: for non-negative a and b, tick(a) followed by tick(b) yields the day
\* and the coatingHealth of tick(a + b) and a roughness that is at least
\* that of tick(a + b), and greater when coating health drops during a and
\* foulingRate, simSpeed and b are positive.
C21_SplitTickRoughness ==
  calc.fn = "splitTick" =>
    /\ calc.split.day = calc.whole.day
    /\ calc.split.coatingHealth = calc.whole.coatingHealth
    /\ calc.split.roughness >= calc.whole.roughness
    /\ (/\ calc.first.coatingHealth < calc.from.coatingHealth
        /\ calc.from.config.vessel.foulingRate > 0
        /\ calc.from.config.simSpeed > 0
        /\ calc.b > 0) => calc.split.roughness > calc.whole.roughness

\* from a state that ticks have already fouled, two steps of one time unit
\* foul the hull more than one step of two
C21_Witness ==
  /\ calc.fn = "splitTick"
  /\ calc.a = 1
  /\ calc.b = 1
  /\ calc.from.day > 0
  /\ calc.from.coatingHealth > 0
  /\ calc.first.coatingHealth < calc.from.coatingHealth
  /\ calc.split.roughness > calc.whole.roughness
  /\ calc.split.day = calc.from.day + 2

\* C22: run side by side on the same construct, tick, updateConfig and reset
\* operations, the engine with fuel cost and the earlier engine without it
\* have the same day, roughness, coatingHealth, dragPenalty, fuelPenalty,
\* dailyFuelTonnes, emissions, emissionsClean and emissionsPenalty after every
\* operation, whatever fuel price the later engine is given.
SharedFields ==
  {"day", "roughness", "coatingHealth", "dragPenalty", "fuelPenalty",
   "dailyFuelTonnes", "emissions", "emissionsClean", "emissionsPenalty"}

C22_LaterRefinesEarlier ==
  calc.fn = "earlier" => \A f \in SharedFields : state[f] = calc.state[f]

C22_Witness ==
  /\ calc.fn = "earlier"
  /\ nticks = 2
  /\ last.op = "tick"
  /\ state.config.fuelPricePerTonne = 250
  /\ state.fuelCostPenalty > 0
  /\ state.emissionsPenalty > 0
  /\ calc.state.emissionsPenalty = state.emissionsPenalty
  /\ calc.state.day = 2

\* C23: with frame timestamps that never decrease, the first frame after the
\* simulation is started or resumed measures a delta of zero and leaves day
\* where it was, every frame's measured delta lies between zero and the cap,
\* and no frame advances day by more than a frame of exactly the cap does,
\* however long the simulation was paused or the frame delayed.
C23_FrameDeltaCapped ==
  [][last'.op = "loop" =>
       /\ app.lastTimeRef = {} => (last'.arg = 0 /\ state'.day = state.day)
       /\ last'.arg \in 0..FrameCap
       /\ last'.arg <= app'.timestamp - app.timestamp
       /\ state'.day - state.day <= SimDays(state, FrameCap * app.simSpeed)]_vars

\* the second frame of a run came three time units or more after the first
\* and advanced day by the cap
C23_Witness ==
  /\ last.op = "loop"
  /\ last.arg = FrameCap
  /\ nticks = 2
  /\ app.isRunning
  /\ app.timestamp = 5
  /\ app.lastTimeRef = {5}
  /\ state.day = FrameCap

\* C24: cost and emissions accrue from the same fuel.  When every tick since
\* the last reset (or construction) ran at the price p, fuelCostClean *
\* CO2_FACTOR = p * emissionsClean and fuelCostPenalty * CO2_FACTOR = p *
\* emissionsPenalty, whatever the price was changed to afterwards; updateConfig
\* leaves the cost counters as they are, and a tick adds cost at the price
\* configured when it runs.  The emission counters are whole multiples of
\* CO2_FACTOR here, so each product is compared after division by it.
CostMatchesEmissions(s, p) ==
  /\ s.emissionsClean % CO2_FACTOR = 0
  /\ s.emissionsPenalty % CO2_FACTOR = 0
  /\ s.fuelCostClean = p * (s.emissionsClean \div CO2_FACTOR)
  /\ s.fuelCostPenalty = p * (s.emissionsPenalty \div CO2_FACTOR)

CostIncrement(s, t) ==
  [fuelCostClean    |-> t.fuelCostClean - s.fuelCostClean,
   fuelCostPenalty  |-> t.fuelCostPenalty - s.fuelCostPenalty,
   emissionsClean   |-> t.emissionsClean - s.emissionsClean,
   emissionsPenalty |-> t.emissionsPenalty - s.emissionsPenalty]

C24_CostProportionalToEmissions ==
  [][/\ \A p \in ValidPrices :
          calc'.prices \subseteq {p} => CostMatchesEmissions(state', p)
     /\ UpdateConfigStep =>
          /\ state'.fuelCostClean = state.fuelCostClean
          /\ state'.fuelCostPenalty = state.fuelCostPenalty
          /\ state'.fuelCostTotal = state.fuelCostTotal
     /\ TickStep =>
          CostMatchesEmissions(CostIncrement(state, state'),
                               state.config.fuelPricePerTonne)]_vars

\* two ticks at 250 dollars a tonne, and the price raised to 500 afterwards
C24_Witness ==
  /\ calc.fn = "tickPrices"
  /\ calc.prices = {250}
  /\ nticks = 2
  /\ last.op = "updateConfig"
  /\ state.config.fuelPricePerTonne = 500
  /\ state.day = 3
  /\ state.fuelCostPenalty > 0
  /\ state.fuelCostClean = 250 * (state.emissionsClean \div CO2_FACTOR)

\* C25: released at any whole raw value of its range, the speed slider hands
\* onSpeedChange a snap point whose distance to raw no other snap point
\* undercuts; a raw value that is a snap point is handed on unchanged.
SnapPoints == {SPEED_SNAP_POINTS[i] : i \in 1..Len(SPEED_SNAP_POINTS)}

C25_SnapsToNearest ==
  last.op = "handleSpeedRelease" =>
    \E q \in SnapPoints :
      /\ state.config.speedKnots = HalfKnots(q)
      /\ \A r \in SnapPoints : Abs(q - last.arg) <= Abs(r - last.arg)
      /\ last.arg \in SnapPoints => q = last.arg

\* the default vessel's slider released at 29 knots, between two snap points
C25_Witness ==
  /\ last.op = "handleSpeedRelease"
  /\ last.arg = 29
  /\ state.config.vessel = DEFAULT_VESSEL
  /\ state.config.speedKnots \in {HalfKnots(28), HalfKnots(30)}
  /\ state.dailyFuelTonnes > 0

====
